---- MODULE Spec2Model ----
(***************************************************************************)
(* The static type checker of the ChocoPy-to-WASM compiler                 *)
(* (src/type-check.ts) as a state machine.                                 *)
(*                                                                         *)
(* A driver holds a whole-program environment and feeds tc one chunk after *)
(* another, adopting the returned environment when tc returns and keeping  *)
(* its own when tc throws.  JavaScript objects that the code compares by   *)
(* reference or mutates are modelled with their identity:                  *)
(*   - a Map of the environment is a cell of `heap`, named by its index;   *)
(*   - a Type object carries `oid`, the identity of the object.  NUM, BOOL *)
(*     and NONE are the imported singletons; every class Type is an object *)
(*     of its own, made where CLASS(name) is called or where the parser    *)
(*     read an annotation.                                                 *)
(* A thrown exception is the result [ok |-> FALSE, err |-> ...]; the first *)
(* one met in the code's evaluation order is the one that propagates.      *)
(***************************************************************************)
EXTENDS Integers, Sequences, FiniteSets, TLC

VARIABLES heap, env, last, chunks, declaredFuns, probe

vars == <<heap, env, last, chunks, declaredFuns, probe>>

\* Number of chunks the driver feeds to tc in one session.
MaxChunks == 2

-----------------------------------------------------------------------------
(* Types: utils.NUM, utils.BOOL, utils.NONE, utils.CLASS *)

SingletonOid == <<0, 0>>

NUM == [tag |-> "number", name |-> "", oid |-> SingletonOid]

BOOL == [tag |-> "bool", name |-> "", oid |-> SingletonOid]

NONE == [tag |-> "none", name |-> "", oid |-> SingletonOid]

\* CLASS(name) builds a new object on every call; o is the identity of the
\* object this call makes.
CLASS(name, o) == [tag |-> "class", name |-> name, oid |-> o]

\* t1 === t2 is identity of objects.
SameObject(t1, t2) == t1 = t2

equalType(t1, t2) ==
    SameObject(t1, t2) \/ (t1.tag = "class" /\ t2.tag = "class" /\ t1.name = t2.name)

isNoneOrClass(t) == t.tag = "none" \/ t.tag = "class"

isSubtype_symmetric(e, t1, t2) ==
    equalType(t1, t2) \/ (isNoneOrClass(t1) /\ isNoneOrClass(t2))

isSubtype(e, t1, t2) ==
    equalType(t1, t2) \/ (t1.tag = "none" /\ t2.tag = "class")

isAssignable(e, t1, t2) == isSubtype(e, t1, t2)

\* s.tag === "class" ? s.name : s.tag
TypeName(t) == IF t.tag = "class" THEN t.name ELSE t.tag

RECURSIVE toObject(_)
\* The string "[n1,n2,...]" is kept as the sequence of the names it joins.
toObject(types) ==
    IF types = <<>> THEN <<>>
    ELSE <<TypeName(Head(types))>> \o toObject(Tail(types))

-----------------------------------------------------------------------------
(* Maps *)

EmptyMap == [k \in {} |-> NONE]

MapHas(m, k) == k \in DOMAIN m

MapSet(m, k, v) == [x \in (DOMAIN m) \cup {k} |-> IF x = k THEN v ELSE m[x]]

RECURSIVE MapSetAll(_, _)
\* seq.forEach(kv => m.set(kv[1], kv[2]))
MapSetAll(m, kvs) ==
    IF kvs = <<>> THEN m
    ELSE MapSetAll(MapSet(m, Head(kvs)[1], Head(kvs)[2]), Tail(kvs))

-----------------------------------------------------------------------------
(* Results: a returned value, or the exception thrown *)

NoErr == [kind |-> "", info |-> <<>>, loc |-> 0]

Ok(v) == [ok |-> TRUE, val |-> v, err |-> NoErr]

\* new BaseException.<kind>(..., loc).  info keeps the constructor's other
\* arguments, each as a sequence of strings.
Fail(kind, info, loc) ==
    [ok |-> FALSE, val |-> <<>>, err |-> [kind |-> kind, info |-> info, loc |-> loc]]

\* Reading a property of undefined: the engine's own TypeError, which is no
\* BaseException and has no source location.
JsTypeError == Fail("JS:TypeError", <<>>, 0)

\* array.map(f) under exceptions: the head is mapped first, then the rest; the
\* first exception thrown is the outcome.
Cons(h, t) == IF ~h.ok THEN h ELSE IF ~t.ok THEN t ELSE Ok(<<h.val>> \o t.val)

-----------------------------------------------------------------------------
(* tcLiteral *)

tcLiteral(literal) ==
    CASE literal.tag = "bool" -> BOOL
      [] literal.tag = "num" -> NUM
      [] literal.tag = "none" -> NONE

-----------------------------------------------------------------------------
(* tcExpr *)

ArithOps == {"Plus", "Minus", "Mul", "IDiv", "Mod"}

EqOps == {"Eq", "Neq"}

RelOps == {"Lte", "Gte", "Lt", "Gt"}

BoolOps == {"And", "Or"}

UnsupportedOprand(op, types, loc) ==
    Fail("UnsupportedOprandTypeError", <<<<op>>, [i \in DOMAIN types |-> types[i].tag]>>, loc)

\* case "binop", given the outcomes of typing the left operand and then the
\* right one
tcBinop(expr, l, r) ==
    IF ~l.ok THEN l ELSE IF ~r.ok THEN r ELSE
    LET tLeft == l.val
        tRight == r.val
        tBin(t) == [a |-> t, tag |-> expr.tag, op |-> expr.op, left |-> tLeft,
                    right |-> tRight, loc |-> expr.loc]
        bad == UnsupportedOprand(expr.op, <<tLeft.a, tRight.a>>, expr.loc)
    IN  CASE expr.op \in ArithOps ->
                IF equalType(tLeft.a, NUM) /\ equalType(tRight.a, NUM)
                THEN Ok(tBin(NUM)) ELSE bad
          [] expr.op \in EqOps ->
                IF equalType(tLeft.a, tRight.a) THEN Ok(tBin(BOOL)) ELSE bad
          [] expr.op \in RelOps ->
                IF equalType(tLeft.a, NUM) /\ equalType(tRight.a, NUM)
                THEN Ok(tBin(BOOL)) ELSE bad
          [] expr.op \in BoolOps ->
                IF equalType(tLeft.a, BOOL) /\ equalType(tRight.a, BOOL)
                THEN Ok(tBin(BOOL)) ELSE bad
          [] expr.op = "Is" ->
                IF ~isNoneOrClass(tLeft.a) \/ ~isNoneOrClass(tRight.a)
                THEN bad ELSE Ok(tBin(BOOL))

\* case "uniop", given the outcome of typing the operand
tcUniop(expr, x) ==
    IF ~x.ok THEN x ELSE
    LET tExpr == x.val
        tUni == [a |-> tExpr.a, tag |-> expr.tag, op |-> expr.op, expr |-> tExpr,
                 loc |-> expr.loc]
        bad == UnsupportedOprand(expr.op, <<tExpr.a>>, expr.loc)
    IN  CASE expr.op = "Neg" -> IF equalType(tExpr.a, NUM) THEN Ok(tUni) ELSE bad
          [] expr.op = "Not" -> IF equalType(tExpr.a, BOOL) THEN Ok(tUni) ELSE bad

\* case "id"
tcId(e, locals, expr) ==
    IF MapHas(locals.vars, expr.name)
    THEN Ok([a |-> locals.vars[expr.name], tag |-> expr.tag, name |-> expr.name,
             loc |-> expr.loc])
    ELSE IF MapHas(e.globals, expr.name)
    THEN Ok([a |-> e.globals[expr.name], tag |-> expr.tag, name |-> expr.name,
             loc |-> expr.loc])
    ELSE Fail("NameError", <<<<expr.name>>>>, expr.loc)

\* case "call", env.classes.has(expr.name): the arguments are not visited
tcConstruct(e, expr) ==
    LET tConstruct == [a |-> CLASS(expr.name, <<e.epoch, expr.loc>>), tag |-> "construct",
                       name |-> expr.name, loc |-> expr.loc]
        methods == e.classes[expr.name][2]
    IN  IF MapHas(methods, "__init__")
        THEN LET initArgs == methods["__init__"][1]
                 initRet == methods["__init__"][2]
             IN  IF Len(expr.arguments) # Len(initArgs) - 1
                 THEN Fail("TypeError", <<<<"__init__() takes positional arguments">>>>, expr.loc)
                 ELSE IF ~SameObject(initRet, NONE)
                 THEN Fail("TypeError", <<<<"__init__() should return None">>, <<TypeName(initRet)>>>>,
                           expr.loc)
                 ELSE Ok(tConstruct)
        ELSE Ok(tConstruct)

\* tArgs.every((tArg, i) => tArg.a === argTypes[i]), the lengths being equal
ArgsIdentical(tArgs, argTypes) ==
    \A i \in DOMAIN tArgs : SameObject(tArgs[i].a, argTypes[i])

\* case "call", env.functions.has(expr.name), given the outcome of typing the
\* arguments
tcCallFun(e, expr, as) ==
    IF ~as.ok THEN as ELSE
    LET tArgs == as.val
        argTypes == e.functions[expr.name][1]
        retType == e.functions[expr.name][2]
    IN  IF Len(argTypes) = Len(expr.arguments) /\ ArgsIdentical(tArgs, argTypes)
        THEN Ok([a |-> retType, tag |-> expr.tag, name |-> expr.name,
                 arguments |-> expr.arguments, loc |-> expr.loc])
        ELSE IF Len(argTypes) # Len(expr.arguments)
        THEN Fail("TypeError", <<<<"takes positional arguments">>, <<expr.name>>>>, expr.loc)
        ELSE Fail("TypeMismatchError",
                  <<<<"[">> \o toObject(argTypes) \o <<"]">>,
                    <<"[">> \o toObject([i \in DOMAIN tArgs |-> tArgs[i].a]) \o <<"]">>>>,
                  expr.loc)

\* case "lookup", given the outcome of typing the object
tcLookup(e, expr, o) ==
    IF ~o.ok THEN o ELSE
    LET tObj == o.val IN
    IF tObj.a.tag = "class"
    THEN IF MapHas(e.classes, tObj.a.name)
         THEN LET fields == e.classes[tObj.a.name][1]
              IN  IF MapHas(fields, expr.field)
                  THEN Ok([a |-> fields[expr.field], tag |-> expr.tag, obj |-> tObj,
                           field |-> expr.field, loc |-> expr.loc])
                  ELSE Fail("AttributeError", <<<<tObj.a.name>>, <<expr.field>>>>, expr.loc)
         ELSE Fail("NameError", <<<<tObj.a.name>>>>, expr.loc)
    ELSE Fail("AttributeError", <<<<tObj.a.tag>>, <<expr.field>>>>, expr.loc)

\* case "method-call", given the outcomes of typing the object and then the
\* arguments
tcMethodCall(e, expr, o, as) ==
    IF ~o.ok THEN o ELSE IF ~as.ok THEN as ELSE
    LET tObj == o.val
        tArgs == as.val
    IN
    IF tObj.a.tag = "class"
    THEN IF MapHas(e.classes, tObj.a.name)
         THEN LET methods == e.classes[tObj.a.name][2]
              IN  IF MapHas(methods, expr.method)
                  THEN LET methodArgs == methods[expr.method][1]
                           methodRet == methods[expr.method][2]
                           realArgs == <<tObj>> \o tArgs
                       IN  IF Len(methodArgs) = Len(realArgs)
                              /\ \A i \in DOMAIN methodArgs :
                                    isAssignable(e, realArgs[i].a, methodArgs[i])
                           THEN Ok([a |-> methodRet, tag |-> expr.tag, obj |-> tObj,
                                    method |-> expr.method, arguments |-> tArgs,
                                    loc |-> expr.loc])
                           ELSE IF Len(methodArgs) # Len(realArgs)
                           THEN Fail("TypeError",
                                     <<<<"takes positional arguments">>, <<expr.method>>>>,
                                     expr.loc)
                           ELSE Fail("TypeMismatchError",
                                     <<<<"[">> \o toObject(methodArgs) \o <<"]">>,
                                       <<"[">> \o toObject([i \in DOMAIN realArgs |-> realArgs[i].a])
                                          \o <<"]">>>>,
                                     expr.loc)
                  ELSE Fail("AttributeError", <<<<tObj.a.name>>, <<expr.method>>>>, expr.loc)
         ELSE Fail("NameError", <<<<tObj.a.name>>>>, expr.loc)
    ELSE Fail("AttributeError", <<<<tObj.a.tag>>, <<expr.method>>>>, expr.loc)

\* case "builtin1", expr.name === "print", given the outcome of typing the
\* argument
tcPrint(expr, x) ==
    IF ~x.ok THEN x
    ELSE Ok([a |-> x.val.a, tag |-> expr.tag, name |-> expr.name, arg |-> x.val,
             loc |-> expr.loc])

\* case "builtin1", env.functions.has(expr.name), name not print, given the
\* outcome of typing the argument.  const [[expectedArgTyp], retTyp] leaves expectedArgTyp
\* undefined when the signature has no parameter; every path of the code then
\* reads a property of it.
tcBuiltin1Fun(e, expr, x) ==
    IF ~x.ok THEN x ELSE
    LET sig == e.functions[expr.name]
        tArg == x.val
    IN  IF Len(sig[1]) = 0 THEN JsTypeError
        ELSE LET expectedArgTyp == sig[1][1]
                 retTyp == sig[2]
             IN  IF isAssignable(e, tArg.a, expectedArgTyp)
                 THEN Ok([a |-> retTyp, tag |-> expr.tag, name |-> expr.name, arg |-> tArg,
                          loc |-> expr.loc])
                 ELSE Fail("TypeMismatchError",
                           <<<<TypeName(expectedArgTyp)>>,
                             <<IF tArg.a.tag = "class" THEN tArg.a.name ELSE tArg.tag>>>>,
                           expr.loc)

\* case "builtin2", env.functions.has(expr.name), given the outcomes of
\* typing the left argument and then the right one.  const [[leftTyp, rightTyp], retTyp] leaves undefined what the
\* signature lacks; every path of the code then reads a property of it.
tcBuiltin2Fun(e, expr, l, r) ==
    IF ~l.ok THEN l ELSE IF ~r.ok THEN r ELSE
    LET sig == e.functions[expr.name]
        tLeftArg == l.val
        tRightArg == r.val
    IN  IF Len(sig[1]) < 2 THEN JsTypeError
        ELSE LET leftTyp == sig[1][1]
                 rightTyp == sig[1][2]
                 retTyp == sig[2]
             IN  IF isAssignable(e, leftTyp, tLeftArg.a) /\ isAssignable(e, rightTyp, tRightArg.a)
                 THEN Ok([a |-> retTyp, tag |-> expr.tag, name |-> expr.name,
                          left |-> tLeftArg, right |-> tRightArg, loc |-> expr.loc])
                 ELSE Fail("TypeMismatchError",
                           <<<<"[">> \o toObject(<<leftTyp, rightTyp>>) \o <<"]">>,
                             <<"[">> \o toObject(<<tLeftArg.a, tRightArg.a>>) \o <<"]">>>>,
                           expr.loc)

RECURSIVE tcExpr(_, _, _)
RECURSIVE tcExprs(_, _, _)

\* e is the environment with its Maps read from the heap, and e.epoch the
\* call of tc whose objects are being made.
tcExpr(e, locals, expr) ==
    CASE expr.tag = "literal" ->
            Ok([tag |-> expr.tag, value |-> expr.value, loc |-> expr.loc,
                a |-> tcLiteral(expr.value)])
      [] expr.tag = "binop" ->
            tcBinop(expr, tcExpr(e, locals, expr.left), tcExpr(e, locals, expr.right))
      [] expr.tag = "uniop" ->
            tcUniop(expr, tcExpr(e, locals, expr.expr))
      [] expr.tag = "id" -> tcId(e, locals, expr)
      [] expr.tag = "builtin1" ->
            IF expr.name = "print" THEN tcPrint(expr, tcExpr(e, locals, expr.arg))
            ELSE IF MapHas(e.functions, expr.name)
            THEN tcBuiltin1Fun(e, expr, tcExpr(e, locals, expr.arg))
            ELSE Fail("NameError", <<<<expr.name>>>>, expr.loc)
      [] expr.tag = "builtin2" ->
            IF MapHas(e.functions, expr.name)
            THEN tcBuiltin2Fun(e, expr, tcExpr(e, locals, expr.left),
                               tcExpr(e, locals, expr.right))
            ELSE Fail("NameError", <<<<expr.name>>>>, expr.loc)
      [] expr.tag = "call" ->
            IF MapHas(e.classes, expr.name) THEN tcConstruct(e, expr)
            ELSE IF MapHas(e.functions, expr.name)
            THEN tcCallFun(e, expr, tcExprs(e, locals, expr.arguments))
            ELSE Fail("NameError", <<<<expr.name>>>>, expr.loc)
      [] expr.tag = "lookup" ->
            tcLookup(e, expr, tcExpr(e, locals, expr.obj))
      [] expr.tag = "method-call" ->
            tcMethodCall(e, expr, tcExpr(e, locals, expr.obj),
                         tcExprs(e, locals, expr.arguments))
      [] OTHER ->
            Fail("Exception", <<<<"unimplemented type checking for expr">>>>, expr.loc)

\* exprs.map((arg) => tcExpr(env, locals, arg))
tcExprs(e, locals, exprs) ==
    IF exprs = <<>> THEN Ok(<<>>)
    ELSE Cons(tcExpr(e, locals, Head(exprs)), tcExprs(e, locals, Tail(exprs)))

-----------------------------------------------------------------------------
(* tcStmt, tcBlock *)

\* case "if", given the outcomes of typing the condition, the then branch and
\* the else branch, in that order.  tThn[tThn.length - 1] is undefined for an
\* empty branch and reading .a of it throws: for the then branch before the
\* else branch is typed.
tcIf(stmt, c, t, l) ==
    IF ~c.ok THEN c ELSE
    IF ~t.ok THEN t ELSE
    IF Len(t.val) = 0 THEN JsTypeError ELSE
    IF ~l.ok THEN l ELSE
    IF Len(l.val) = 0 THEN JsTypeError ELSE
    LET tCond == c.val
        tThn == t.val
        tEls == l.val
        thnTyp == tThn[Len(tThn)].a
        elsTyp == tEls[Len(tEls)].a
    IN  IF ~SameObject(tCond.a, BOOL)
        THEN Fail("ConditionTypeError", <<<<tCond.a.tag>>>>, tCond.loc)
        ELSE IF ~SameObject(thnTyp, elsTyp)
        THEN Fail("SyntaxError", <<<<"Types of then and else branches must match">>>>, stmt.loc)
        ELSE Ok([a |-> thnTyp, tag |-> stmt.tag, cond |-> tCond, thn |-> tThn, els |-> tEls,
                 loc |-> stmt.loc])

\* case "return" inside a function, given the outcome of typing the value
tcReturnStmt(e, locals, stmt, r) ==
    IF ~r.ok THEN r ELSE
    LET tRet == r.val IN
    IF ~isAssignable(e, tRet.a, locals.expectedRet)
    THEN Fail("TypeMismatchError",
              <<<<TypeName(locals.expectedRet)>>, <<TypeName(tRet.a)>>>>, stmt.loc)
    ELSE Ok([a |-> tRet.a, tag |-> stmt.tag, value |-> tRet, loc |-> stmt.loc])

\* case "expr", given the outcome of typing the expression
tcExprStmt(stmt, x) ==
    IF ~x.ok THEN x
    ELSE Ok([a |-> x.val.a, tag |-> stmt.tag, expr |-> x.val, loc |-> stmt.loc])

\* case "while", given the outcomes of typing the condition and then the body
tcWhile(stmt, c, b) ==
    IF ~c.ok THEN c ELSE IF ~b.ok THEN b ELSE
    LET tCond == c.val
        tBody == b.val
    IN
    IF ~equalType(tCond.a, BOOL)
    THEN Fail("ConditionTypeError", <<<<tCond.a.tag>>>>, tCond.loc)
    ELSE Ok([a |-> NONE, tag |-> stmt.tag, cond |-> tCond, body |-> tBody, loc |-> stmt.loc])

\* case "assign", given the outcome of typing the value
tcAssign(e, locals, stmt, v) ==
    IF ~v.ok THEN v ELSE
    LET tValExpr == v.val IN
    IF ~MapHas(locals.vars, stmt.name) /\ ~MapHas(e.globals, stmt.name)
    THEN Fail("NameError", <<<<stmt.name>>>>, stmt.loc)
    ELSE LET nameTyp == IF MapHas(locals.vars, stmt.name) THEN locals.vars[stmt.name]
                        ELSE e.globals[stmt.name]
         IN  IF ~isAssignable(e, tValExpr.a, nameTyp)
             THEN Fail("TypeMismatchError", <<<<nameTyp.tag>>, <<tValExpr.a.tag>>>>, stmt.loc)
             ELSE Ok([a |-> NONE, tag |-> stmt.tag, name |-> stmt.name, value |-> tValExpr,
                      loc |-> stmt.loc])

\* case "field-assign", given the outcomes of typing the object and then the
\* value
tcFieldAssign(e, stmt, o, v) ==
    IF ~o.ok THEN o ELSE IF ~v.ok THEN v ELSE
    LET tObj == o.val
        tVal == v.val
    IN
    IF tObj.a.tag # "class"
    THEN Fail("AttributeError", <<<<tObj.a.tag>>, <<stmt.field>>>>, stmt.loc)
    ELSE IF ~MapHas(e.classes, tObj.a.name)
    THEN Fail("NameError", <<<<tObj.a.name>>>>, stmt.loc)
    ELSE LET fields == e.classes[tObj.a.name][1]
         IN  IF ~MapHas(fields, stmt.field)
             THEN Fail("AttributeError", <<<<tObj.a.name>>, <<stmt.field>>>>, stmt.loc)
             ELSE IF ~isAssignable(e, tVal.a, fields[stmt.field])
             THEN Fail("TypeMismatchError",
                       <<<<fields[stmt.field].tag>>, <<tVal.a.tag>>>>, stmt.loc)
             ELSE Ok([a |-> NONE, tag |-> stmt.tag, obj |-> tObj, field |-> stmt.field,
                      value |-> tVal, loc |-> stmt.loc])

RECURSIVE tcStmt(_, _, _)
RECURSIVE tcBlock(_, _, _)

\* No case of tcStmt writes locals.vars: the scope it is given is the scope
\* it leaves.
tcStmt(e, locals, stmt) ==
    CASE stmt.tag = "assignment" ->
            Fail("Exception", <<<<"Destructured assignment not implemented">>>>, stmt.loc)
      [] stmt.tag = "assign" ->
            tcAssign(e, locals, stmt, tcExpr(e, locals, stmt.value))
      [] stmt.tag = "expr" ->
            tcExprStmt(stmt, tcExpr(e, locals, stmt.expr))
      [] stmt.tag = "if" ->
            tcIf(stmt, tcExpr(e, locals, stmt.cond), tcBlock(e, locals, stmt.thn),
                 tcBlock(e, locals, stmt.els))
      [] stmt.tag = "return" ->
            IF locals.topLevel
            THEN Fail("SyntaxError", <<<<"return outside of functions">>>>, stmt.loc)
            ELSE tcReturnStmt(e, locals, stmt, tcExpr(e, locals, stmt.value))
      [] stmt.tag = "while" ->
            tcWhile(stmt, tcExpr(e, locals, stmt.cond), tcBlock(e, locals, stmt.body))
      [] stmt.tag = "pass" ->
            Ok([a |-> NONE, tag |-> stmt.tag, loc |-> stmt.loc])
      [] stmt.tag = "field-assign" ->
            tcFieldAssign(e, stmt, tcExpr(e, locals, stmt.obj), tcExpr(e, locals, stmt.value))

\* stmts.map((stmt) => tcStmt(env, locals, stmt))
tcBlock(e, locals, stmts) ==
    IF stmts = <<>> THEN Ok(<<>>)
    ELSE Cons(tcStmt(e, locals, Head(stmts)), tcBlock(e, locals, Tail(stmts)))

-----------------------------------------------------------------------------
(* tcInit, tcDef, tcClass *)

emptyLocalTypeEnv == [vars |-> EmptyMap, expectedRet |-> NONE, topLevel |-> TRUE]

tcInit(e, init) ==
    LET valTyp == tcLiteral(init.value)
    IN  IF isAssignable(e, valTyp, init.type)
        THEN Ok([name |-> init.name, type |-> init.type, value |-> init.value,
                 loc |-> init.loc, a |-> NONE])
        ELSE Fail("TypeMismatchError", <<<<init.type.tag>>, <<valTyp.tag>>>>, init.loc)

RECURSIVE tcInits(_, _)
\* inits.map((init) => tcInit(env, init))
tcInits(e, inits) ==
    IF inits = <<>> THEN Ok(<<>>)
    ELSE Cons(tcInit(e, Head(inits)), tcInits(e, Tail(inits)))

\* The scope of a function body: the parameters, then the local initializers
FunLocals(fun, tInits) ==
    [vars |-> MapSetAll(MapSetAll(EmptyMap,
                                  [i \in DOMAIN fun.parameters |->
                                      <<fun.parameters[i].name, fun.parameters[i].type>>]),
                        [i \in DOMAIN tInits |-> <<tInits[i].name, tInits[i].type>>]),
     expectedRet |-> fun.ret,
     topLevel |-> FALSE]

\* tcDef, given the outcome of typing the body
tcDefReturn(fun, b) ==
    IF ~b.ok THEN b
    ELSE Ok([name |-> fun.name, parameters |-> fun.parameters, ret |-> fun.ret,
             inits |-> fun.inits, body |-> b.val, loc |-> fun.loc, a |-> NONE])

\* tcDef, given the outcome of typing the local initializers
tcDefBody(e, fun, is) ==
    IF ~is.ok THEN is
    ELSE tcDefReturn(fun, tcBlock(e, FunLocals(fun, is.val), fun.body))

tcDef(e, fun) == tcDefBody(e, fun, tcInits(e, fun.inits))

RECURSIVE tcDefs(_, _)
\* funs.map((fun) => tcDef(env, fun))
tcDefs(e, funs) ==
    IF funs = <<>> THEN Ok(<<>>)
    ELSE Cons(tcDef(e, Head(funs)), tcDefs(e, Tail(funs)))

\* tcClass, given the outcomes of typing the fields and then the methods
tcClassReturn(cls, fs, ms) ==
    IF ~fs.ok THEN fs ELSE IF ~ms.ok THEN ms
    ELSE Ok([a |-> NONE, name |-> cls.name, fields |-> fs.val, methods |-> ms.val,
             loc |-> cls.loc])

tcClass(e, cls) == tcClassReturn(cls, tcInits(e, cls.fields), tcDefs(e, cls.methods))

RECURSIVE tcClasses(_, _)
\* classes.map((cls) => tcClass(env, cls))
tcClasses(e, classes) ==
    IF classes = <<>> THEN Ok(<<>>)
    ELSE Cons(tcClass(e, Head(classes)), tcClasses(e, Tail(classes)))

-----------------------------------------------------------------------------
(* The environment: three Maps on the heap *)

\* defaultGlobalFunctions; CLASS("object") is made once, when the module loads
defaultGlobalFunctions ==
    MapSetAll(EmptyMap,
              << <<"abs", <<<<NUM>>, NUM>>>>,
                 <<"max", <<<<NUM, NUM>>, NUM>>>>,
                 <<"min", <<<<NUM, NUM>>, NUM>>>>,
                 <<"pow", <<<<NUM, NUM>>, NUM>>>>,
                 <<"print", <<<<CLASS("object", <<0, 1>>)>>, NUM>>>> >>)

\* defaultTypeEnv: the heap holding its three Maps, and the object itself
defaultHeap == <<EmptyMap, defaultGlobalFunctions, EmptyMap>>

defaultTypeEnv == [globals |-> 1, functions |-> 2, classes |-> 3]

\* The Maps an environment object points to, as values
Contents(h, ev) ==
    [globals |-> h[ev.globals], functions |-> h[ev.functions], classes |-> h[ev.classes]]

\* The environment as tcExpr and tcStmt read it during call number k of tc
Reading(h, ev, k) ==
    [globals |-> h[ev.globals], functions |-> h[ev.functions],
     classes |-> h[ev.classes], epoch |-> k]

Signature(fun) == <<[i \in DOMAIN fun.parameters |-> fun.parameters[i].type], fun.ret>>

\* the body of program.classes.forEach: two new Maps, filled from the class
ClassEntry(cls) ==
    << MapSetAll(EmptyMap, [i \in DOMAIN cls.fields |->
                               <<cls.fields[i].name, cls.fields[i].type>>]),
       MapSetAll(EmptyMap, [i \in DOMAIN cls.methods |->
                               <<cls.methods[i].name, Signature(cls.methods[i])>>]) >>

AugmentedGlobals(m, program) ==
    MapSetAll(m, [i \in DOMAIN program.inits |->
                    <<program.inits[i].name, program.inits[i].type>>])

AugmentedFunctions(m, program) ==
    MapSetAll(m, [i \in DOMAIN program.funs |->
                    <<program.funs[i].name, Signature(program.funs[i])>>])

AugmentedClasses(m, program) ==
    MapSetAll(m, [i \in DOMAIN program.classes |->
                    <<program.classes[i].name, ClassEntry(program.classes[i])>>])

\* A slip: the declarations are set in the caller's own Maps.
augmentTEnv_inPlace(h, ev, program) ==
    [heap |-> [h EXCEPT ![ev.globals] = AugmentedGlobals(@, program),
                        ![ev.functions] = AugmentedFunctions(@, program),
                        ![ev.classes] = AugmentedClasses(@, program)],
     env |-> ev]

\* A slip: the new Maps start empty instead of as copies.
augmentTEnv_fromEmpty(h, ev, program) ==
    [heap |-> h \o << AugmentedGlobals(EmptyMap, program),
                      AugmentedFunctions(EmptyMap, program),
                      AugmentedClasses(EmptyMap, program) >>,
     env |-> [globals |-> Len(h) + 1, functions |-> Len(h) + 2, classes |-> Len(h) + 3]]

\* new Map(env.globals), new Map(env.functions), new Map(env.classes): three
\* new cells, each a copy, then the declarations set in the copies.
augmentTEnv(h, ev, program) ==
    [heap |-> h \o << AugmentedGlobals(h[ev.globals], program),
                      AugmentedFunctions(h[ev.functions], program),
                      AugmentedClasses(h[ev.classes], program) >>,
     env |-> [globals |-> Len(h) + 1, functions |-> Len(h) + 2, classes |-> Len(h) + 3]]

\* for (let name of locals.vars.keys()) newEnv.globals.set(name, locals.vars.get(name))
CopyLocals(m, lvars) ==
    [x \in (DOMAIN m) \cup (DOMAIN lvars) |-> IF x \in DOMAIN lvars THEN lvars[x] ELSE m[x]]

\* tc, given the outcomes of typing the initializers, the functions, the
\* classes and the body, in that order: what it returns as aprogram
tcProgram(program, is, fs, cs, b) ==
    IF ~is.ok THEN is ELSE IF ~fs.ok THEN fs ELSE IF ~cs.ok THEN cs ELSE IF ~b.ok THEN b
    ELSE Ok([a |-> IF Len(b.val) # 0 THEN b.val[Len(b.val)].a ELSE NONE,
             inits |-> is.val, funs |-> fs.val, classes |-> cs.val, stmts |-> b.val,
             loc |-> program.loc])

\* The end of tc: locals.vars copied into newEnv.globals, unless it threw
tcReturn(aug, locals, r) ==
    IF r.ok
    THEN [heap |-> [aug.heap EXCEPT ![aug.env.globals] = CopyLocals(@, locals.vars)],
          res |-> Ok(<<r.val, aug.env>>)]
    ELSE [heap |-> aug.heap, res |-> r]

\* The call of tc on what augmentTEnv made
tcAugmented(aug, ev, locals, program, k) ==
    tcReturn(aug, locals,
             tcProgram(program,
                       tcInits(Reading(aug.heap, ev, k), program.inits),
                       tcDefs(Reading(aug.heap, aug.env, k), program.funs),
                       tcClasses(Reading(aug.heap, aug.env, k), program.classes),
                       tcBlock(Reading(aug.heap, aug.env, k), locals, program.stmts)))

\* tc, as call number k.  The result is the heap the call leaves and what it
\* returned, <<aprogram, newEnv>>, or threw.
tc(h, ev, program, k) ==
    tcAugmented(augmentTEnv(h, ev, program), ev, emptyLocalTypeEnv, program, k)

-----------------------------------------------------------------------------
(* Input programs: the trees the parser hands to tc.  loc is the place of a  *)
(* node in its chunk; a class annotation read in chunk k at place s is the   *)
(* object <<k, s>>.                                                          *)

Lit(t, l) == [tag |-> "literal", value |-> [tag |-> t], loc |-> l]

Id(n, l) == [tag |-> "id", name |-> n, loc |-> l]

Bin(op, x, y, l) == [tag |-> "binop", op |-> op, left |-> x, right |-> y, loc |-> l]

Uni(op, x, l) == [tag |-> "uniop", op |-> op, expr |-> x, loc |-> l]

B1(n, x, l) == [tag |-> "builtin1", name |-> n, arg |-> x, loc |-> l]

B2(n, x, y, l) == [tag |-> "builtin2", name |-> n, left |-> x, right |-> y, loc |-> l]

Call(n, xs, l) == [tag |-> "call", name |-> n, arguments |-> xs, loc |-> l]

Look(o, f, l) == [tag |-> "lookup", obj |-> o, field |-> f, loc |-> l]

MCall(o, m, xs, l) == [tag |-> "method-call", obj |-> o, method |-> m, arguments |-> xs, loc |-> l]

Assign(n, v, l) == [tag |-> "assign", name |-> n, value |-> v, loc |-> l]

ExprS(x, l) == [tag |-> "expr", expr |-> x, loc |-> l]

If(c, t, e, l) == [tag |-> "if", cond |-> c, thn |-> t, els |-> e, loc |-> l]

Ret(v, l) == [tag |-> "return", value |-> v, loc |-> l]

While(c, b, l) == [tag |-> "while", cond |-> c, body |-> b, loc |-> l]

Pass(l) == [tag |-> "pass", loc |-> l]

FAssign(o, f, v, l) == [tag |-> "field-assign", obj |-> o, field |-> f, value |-> v, loc |-> l]

Destructure(l) == [tag |-> "assignment", loc |-> l]

VarInit(n, t, v, l) == [name |-> n, type |-> t, value |-> [tag |-> v], loc |-> l]

Param(n, t) == [name |-> n, type |-> t]

FunDef(n, ps, r, is, b, l) ==
    [name |-> n, parameters |-> ps, ret |-> r, inits |-> is, body |-> b, loc |-> l]

ClassDef(n, fs, ms, l) == [name |-> n, fields |-> fs, methods |-> ms, loc |-> l]

Program(is, fs, cs, ss) == [inits |-> is, funs |-> fs, classes |-> cs, stmts |-> ss, loc |-> 1]

NoDecls == [inits |-> <<>>, funs |-> <<>>, classes |-> <<>>]

WithStmts(d, ss) == Program(d.inits, d.funs, d.classes, ss)

\* x: int = 1; b: bool = True; c: C = None; u: Z = None (Z is no class)
\* def f(n: int) -> int:  m: int = 0;  m = n;  return n + m
\* def g(o: C) -> C:  return g(o)
\* def h(x: bool) -> bool:  return x
\* class C:  v: int = 0;  o: C = None
\*    def __init__(self: C, n: int):  self.v = n
\*    def get(self: C) -> int:  return self.v
\*    def set(self: C, o: C):  self.o = o
\* class D:  w: bool = False
\* class E:  def __init__(self: E) -> int:  return 1
GoodDecls(k) ==
    [inits |-> << VarInit("x", NUM, "num", 101), VarInit("b", BOOL, "bool", 102),
                  VarInit("c", CLASS("C", <<k, 103>>), "none", 103),
                  VarInit("u", CLASS("Z", <<k, 104>>), "none", 104) >>,
     funs |-> << FunDef("f", <<Param("n", NUM)>>, NUM, <<VarInit("m", NUM, "num", 111)>>,
                        << Assign("m", Id("n", 113), 112),
                           Ret(Bin("Plus", Id("n", 115), Id("m", 116), 117), 114) >>, 110),
                 FunDef("g", <<Param("o", CLASS("C", <<k, 121>>))>>, CLASS("C", <<k, 122>>), <<>>,
                        << Ret(Call("g", <<Id("o", 125)>>, 124), 123) >>, 120),
                 FunDef("h", <<Param("x", BOOL)>>, BOOL, <<>>,
                        << Ret(Id("x", 132), 131) >>, 130) >>,
     classes |-> << ClassDef("C",
                        << VarInit("v", NUM, "num", 141),
                           VarInit("o", CLASS("C", <<k, 142>>), "none", 142) >>,
                        << FunDef("__init__",
                                  <<Param("self", CLASS("C", <<k, 151>>)), Param("n", NUM)>>,
                                  NONE, <<>>,
                                  << FAssign(Id("self", 153), "v", Id("n", 154), 152) >>, 150),
                           FunDef("get", <<Param("self", CLASS("C", <<k, 161>>))>>, NUM, <<>>,
                                  << Ret(Look(Id("self", 163), "v", 164), 162) >>, 160),
                           FunDef("set",
                                  << Param("self", CLASS("C", <<k, 171>>)),
                                     Param("o", CLASS("C", <<k, 172>>)) >>,
                                  NONE, <<>>,
                                  << FAssign(Id("self", 174), "o", Id("o", 175), 173) >>, 170) >>,
                        140),
                    ClassDef("D", << VarInit("w", BOOL, "bool", 181) >>, <<>>, 180),
                    ClassDef("E", <<>>,
                        << FunDef("__init__", <<Param("self", CLASS("E", <<k, 191>>))>>, NUM, <<>>,
                                  << Ret(Lit("num", 193), 192) >> , 190) >>, 189) >>]

\* x: bool = True;  def abs() -> int: return 1;  def f(n: bool) -> bool: return n
Redeclare(k) ==
    [inits |-> << VarInit("x", BOOL, "bool", 201) >>,
     funs |-> << FunDef("abs", <<>>, NUM, <<>>, << Ret(Lit("num", 212), 211) >>, 210),
                 FunDef("f", <<Param("n", BOOL)>>, BOOL, <<>>,
                        << Ret(Id("n", 222), 221) >>, 220) >>,
     classes |-> << ClassDef("D", << VarInit("w", NUM, "num", 231) >>, <<>>, 230) >>]

\* declarations that tc rejects
BadDecls(k) ==
    { \* y: int = True
      [inits |-> << VarInit("y", NUM, "bool", 301) >>, funs |-> <<>>, classes |-> <<>>],
      \* y: int = 1;  def k() -> int: return True
      [inits |-> << VarInit("y", NUM, "num", 301) >>,
       funs |-> << FunDef("k", <<>>, NUM, <<>>, << Ret(Lit("bool", 312), 311) >>, 310) >>,
       classes |-> <<>>],
      \* def k() -> int: return 1;  class K: v: int = None
      [inits |-> <<>>,
       funs |-> << FunDef("k", <<>>, NUM, <<>>, << Ret(Lit("num", 312), 311) >>, 310) >>,
       classes |-> << ClassDef("K", << VarInit("v", NUM, "none", 321) >>, <<>>, 320) >>],
      \* def k(n: int) -> int:  n: bool = 1  (a local initializer that fails)
      [inits |-> <<>>,
       funs |-> << FunDef("k", <<Param("n", NUM)>>, NUM, <<VarInit("n", BOOL, "num", 313)>>,
                          << Pass(311) >>, 310) >>,
       classes |-> <<>>],
      \* class K:  def m(self: K) -> int: return zz
      [inits |-> <<>>, funs |-> <<>>,
       classes |-> << ClassDef("K", <<>>,
                        << FunDef("m", <<Param("self", CLASS("K", <<k, 331>>))>>, NUM, <<>>,
                                  << Ret(Id("zz", 333), 332) >>, 330) >> , 320) >>] }

\* Operands: 1, True, None, x (int), b (bool), c (a C), zz (never bound)
Leaf(t, l) ==
    CASE t = "num" -> Lit("num", l)
      [] t = "bool" -> Lit("bool", l)
      [] t = "none" -> Lit("none", l)
      [] OTHER -> Id(t, l)

AllBinOps == ArithOps \cup EqOps \cup RelOps \cup BoolOps \cup {"Is"}

ExprCatalogue ==
    { Leaf(t, 11) : t \in {"num", "bool", "none", "x", "c", "zz"} }
    \cup { Bin(op, Lit("num", 12), Lit("num", 13), 11) : op \in AllBinOps }
    \cup { Bin(op, Lit("num", 12), Lit("bool", 13), 11) : op \in {"Plus", "Eq", "Lt", "And", "Is"} }
    \cup { Bin("Eq", Id("c", 12), Lit("none", 13), 11), Bin("Eq", Id("c", 12), Id("c", 13), 11),
           Bin("Is", Id("c", 12), Lit("none", 13), 11), Bin("And", Id("b", 12), Lit("bool", 13), 11),
           Bin("Plus", Id("zz", 12), Lit("bool", 13), 11),
           Bin("Is", Call("C", <<Lit("num", 14)>>, 12), Call("D", <<>>, 13), 11) }
    \cup { Uni(op, Leaf(t, 12), 11) : op \in {"Neg", "Not"}, t \in {"num", "bool"} }
    \cup { B1(n, Leaf(t, 12), 11) : n \in {"print", "abs"}, t \in {"num", "c", "zz"} }
    \cup { B1("len", Lit("num", 12), 11), B1("print", Call("f", <<Lit("num", 13)>>, 12), 11),
           B2("max", Lit("num", 12), Lit("num", 13), 11),
           B2("max", Lit("num", 12), Lit("bool", 13), 11),
           B2("max", Id("zz", 12), Lit("bool", 13), 11),
           B2("top", Lit("num", 12), Lit("num", 13), 11),
           B2("abs", Lit("num", 12), Lit("num", 13), 11) }
    \cup { Call("f", xs, 11) :
              xs \in { <<>>, <<Lit("num", 12)>>, <<Lit("bool", 12)>>, <<Id("x", 12)>>,
                       <<Lit("num", 12), Lit("num", 13)>>, <<Lit("bool", 12), Id("zz", 13)>>,
                       <<Call("f", <<Lit("num", 13)>>, 12)>> } }
    \cup { Call("g", xs, 11) :
              xs \in { <<Id("c", 12)>>, <<Lit("none", 12)>>, <<Call("C", <<Lit("num", 13)>>, 12)>>,
                       <<Lit("num", 12)>> } }
    \cup { Call("nofun", <<Lit("num", 12)>>, 11) }
    \cup { Call("C", xs, 11) :
              xs \in { <<>>, <<Lit("num", 12)>>, <<Lit("bool", 12)>>, <<Id("zz", 12)>>,
                       <<Lit("num", 12), Lit("num", 13)>> } }
    \cup { Call("D", xs, 11) : xs \in { <<>>, <<Lit("num", 12)>>, <<Id("zz", 12), Lit("num", 13)>> } }
    \cup { Call("E", <<>>, 11), Call("E", <<Lit("num", 12)>>, 11) }
    \cup { Look(Id("c", 12), "v", 11), Look(Id("c", 12), "q", 11), Look(Id("x", 12), "v", 11),
           Look(Id("u", 12), "v", 11), Look(Id("zz", 12), "v", 11),
           Look(Call("C", <<Lit("num", 13)>>, 12), "o", 11) }
    \cup { MCall(Id("c", 12), "get", <<>>, 11), MCall(Id("c", 12), "get", <<Lit("num", 13)>>, 11),
           MCall(Id("c", 12), "set", <<Id("c", 13)>>, 11),
           MCall(Id("c", 12), "set", <<Lit("none", 13)>>, 11),
           MCall(Id("c", 12), "set", <<Lit("num", 13)>>, 11),
           MCall(Id("c", 12), "set", <<Id("zz", 13)>>, 11),
           MCall(Id("c", 12), "set", <<Call("f", <<Lit("num", 14)>>, 13)>>, 11),
           MCall(Id("c", 12), "nomethod", <<>>, 11), MCall(Id("x", 12), "get", <<>>, 11),
           MCall(Id("u", 12), "get", <<>>, 11), MCall(Id("zz", 12), "get", <<>>, 11) }
    \cup { [tag |-> "list-expr", loc |-> 11] }

Conds == { Lit("bool", 21), Lit("num", 21), Id("zz", 21) }

\* Branches and loop bodies, by name; "empty" is the empty statement list
Block(n, l) ==
    CASE n = "pass" -> << Pass(l) >>
      [] n = "num" -> << ExprS(Lit("num", l + 1), l) >>
      [] n = "bool" -> << ExprS(Lit("bool", l + 1), l) >>
      [] n = "c" -> << ExprS(Id("c", l + 1), l) >>
      [] n = "newC" -> << ExprS(Call("C", <<Lit("num", l + 2)>>, l + 1), l) >>
      [] n = "zz" -> << ExprS(Id("zz", l + 1), l) >>
      [] n = "bool;num" -> << ExprS(Lit("bool", l + 1), l), ExprS(Lit("num", l + 3), l + 2) >>
      [] n = "empty" -> <<>>

BranchPairs ==
    { <<"pass", "pass">>, <<"num", "num">>, <<"num", "bool">>, <<"num", "bool;num">>,
      <<"c", "c">>, <<"newC", "newC">>, <<"c", "newC">>, <<"pass", "empty">>,
      <<"empty", "pass">>, <<"zz", "pass">>, <<"pass", "zz">>, <<"empty", "zz">> }

StmtCatalogue ==
    { <<>> }
    \cup { << ExprS(x, 10) >> : x \in ExprCatalogue }
    \cup { << Assign(n, Leaf(t, 11), 10) >> :
              n \in {"x", "c", "zz"}, t \in {"num", "none", "zz"} }
    \cup { << Assign("c", Call("C", <<Lit("num", 12)>>, 11), 10) >>,
           << Assign("c", Id("c", 11), 10) >> }
    \cup { << Assign("zz", Lit("num", 11), 10), ExprS(Id("zz", 21), 20) >>,
           << ExprS(Lit("num", 11), 10), ExprS(Lit("bool", 21), 20) >>,
           << ExprS(Id("zz", 11), 10), Ret(Lit("num", 21), 20) >> }
    \cup { << If(c, Block(pr[1], 30), Block(pr[2], 40), 20) >> : c \in Conds, pr \in BranchPairs }
    \cup { << While(c, Block(n, 30), 20) >> : c \in Conds, n \in {"pass", "zz", "empty", "num"} }
    \cup { << Ret(Lit("num", 11), 10) >>, << Pass(10) >>, << Destructure(10) >> }
    \cup { << FAssign(Id("c", 11), f, Leaf(t, 13), 10) >> :
              f \in {"v", "o", "q"}, t \in {"num", "none"} }
    \cup { << FAssign(Id("x", 11), "v", Lit("num", 13), 10) >>,
           << FAssign(Id("u", 11), "v", Lit("num", 13), 10) >>,
           << FAssign(Id("c", 11), "v", Id("zz", 13), 10) >> }

\* The chunks the driver may hand to tc as call number k
Programs(k) ==
    { WithStmts(NoDecls, ss) : ss \in StmtCatalogue }
    \cup { WithStmts(GoodDecls(k), ss) :
              ss \in { <<>>, << ExprS(Call("g", <<Id("c", 11)>>, 11), 10) >>,
                       << ExprS(Call("f", <<Id("x", 12)>>, 11), 10) >>,
                       << ExprS(Id("zz", 11), 10) >>,
                       << Assign("zz", Lit("num", 11), 10) >>,
                       << Assign("c", Call("C", <<Lit("num", 12)>>, 11), 10) >> } }
    \cup { WithStmts(Redeclare(k), ss) : ss \in { <<>>, << ExprS(Id("x", 11), 10) >> } }
    \cup { WithStmts(d, <<>>) : d \in BadDecls(k) }

-----------------------------------------------------------------------------
(* The driver *)

NoCall ==
    [called |-> FALSE, k |-> 0, prog |-> Program(<<>>, <<>>, <<>>, <<>>), envIn |-> defaultTypeEnv,
     before |-> Contents(defaultHeap, defaultTypeEnv), ok |-> FALSE, err |-> NoErr,
     tprog |-> <<>>, envOut |-> defaultTypeEnv]

NoProbe ==
    [done |-> FALSE, t1 |-> NONE, t2 |-> NONE, e |-> Contents(defaultHeap, defaultTypeEnv),
     res |-> FALSE]

Init ==
    /\ heap = defaultHeap
    /\ env = defaultTypeEnv
    /\ last = NoCall
    /\ chunks = 0
    /\ declaredFuns = {}
    /\ probe = NoProbe

FunNames(program) == { program.funs[i].name : i \in DOMAIN program.funs }

\* What the driver holds after a call: it adopts the returned environment, and
\* keeps its own when tc throws (what the failed call allocated is then
\* unreachable and is dropped from the heap).
AfterCall(h, ev, p, k, r) ==
    [heap |-> IF r.res.ok THEN r.heap ELSE SubSeq(r.heap, 1, Len(h)),
     env |-> IF r.res.ok THEN r.res.val[2] ELSE ev,
     last |-> [called |-> TRUE, k |-> k, prog |-> p, envIn |-> ev,
               before |-> Contents(h, ev), ok |-> r.res.ok, err |-> r.res.err,
               tprog |-> IF r.res.ok THEN r.res.val[1] ELSE <<>>,
               envOut |-> IF r.res.ok THEN r.res.val[2] ELSE ev],
     ok |-> r.res.ok]

\* One call of tc by the driver
Tc ==
    /\ chunks < MaxChunks
    /\ \E p \in Programs(chunks + 1) :
          \E s \in {AfterCall(heap, env, p, chunks + 1, tc(heap, env, p, chunks + 1))} :
             /\ heap' = s.heap
             /\ env' = s.env
             /\ last' = s.last
             /\ declaredFuns' = IF s.ok THEN declaredFuns \cup FunNames(p) ELSE declaredFuns
    /\ chunks' = chunks + 1
    /\ UNCHANGED probe

Next == Tc

Spec == Init /\ [][Next]_vars

-----------------------------------------------------------------------------
(* isAssignable on its own: every pair of types, under several environments *)

\* emptyGlobalTypeEnv(), as the Maps it holds
emptyGlobalTypeEnv == [globals |-> EmptyMap, functions |-> EmptyMap, classes |-> EmptyMap]

\* Two objects for class A, one for class B, and the built-in table's object
ProbeTypes ==
    { NUM, BOOL, NONE, CLASS("A", <<1, 1>>), CLASS("A", <<1, 2>>), CLASS("B", <<1, 3>>),
      CLASS("object", <<0, 1>>) }

\* The Maps of the environment a call of tc returned
Returned(r) == Contents(r.heap, r.res.val[2])

ProbeEnvs ==
    { Contents(defaultHeap, defaultTypeEnv), emptyGlobalTypeEnv,
      Returned(tc(defaultHeap, defaultTypeEnv, WithStmts(GoodDecls(1), <<>>), 1)) }

InitAssign ==
    /\ heap = defaultHeap
    /\ env = defaultTypeEnv
    /\ last = NoCall
    /\ chunks = 0
    /\ declaredFuns = {}
    /\ probe \in { [done |-> FALSE, t1 |-> t1, t2 |-> t2, e |-> e, res |-> FALSE] :
                      t1 \in ProbeTypes, t2 \in ProbeTypes, e \in ProbeEnvs }

Probe ==
    /\ ~probe.done
    /\ probe' = [probe EXCEPT !.done = TRUE, !.res = isAssignable(probe.e, probe.t1, probe.t2)]
    /\ UNCHANGED <<heap, env, last, chunks, declaredFuns>>

NextAssign == Probe

SpecAssign == InitAssign /\ [][NextAssign]_vars

-----------------------------------------------------------------------------
(* Properties *)

\* Equality of types as the specification defines it: the same primitive
\* tag, or two class types of the same name
SameType(t1, t2) == t1.tag = t2.tag /\ (t1.tag = "class" => t1.name = t2.name)

\* C1: isAssignable(env, T1, T2) is true exactly when T1 and T2 are equal
\* (same primitive tag, or classes of the same name) or T1 is None and T2 is a
\* class type, whatever the environment.
C1_AssignableExactly ==
    probe.done =>
        (probe.res <=> (SameType(probe.t1, probe.t2)
                        \/ (probe.t1.tag = "none" /\ probe.t2.tag = "class")))

\* None was offered to a class type, under an environment that declares classes
C1_Witness ==
    /\ probe.done /\ probe.res
    /\ probe.t1 = NONE /\ probe.t2.tag = "class"
    /\ DOMAIN probe.e.classes # {}

InitNames(program) == { program.inits[i].name : i \in DOMAIN program.inits }

ClassNames(program) == { program.classes[i].name : i \in DOMAIN program.classes }

\* C2: after a call of tc, returned or thrown, the Maps of the environment the
\* caller passed hold what they held before the call; the bindings the chunk
\* declares are in the returned environment, which shares no Map with it.
C2_CallerEnvUnchanged ==
    last.called =>
        /\ Contents(heap, last.envIn) = last.before
        /\ last.ok =>
              /\ {last.envOut.globals, last.envOut.functions, last.envOut.classes}
                    \cap {last.envIn.globals, last.envIn.functions, last.envIn.classes} = {}
              /\ InitNames(last.prog) \subseteq DOMAIN heap[last.envOut.globals]
              /\ FunNames(last.prog) \subseteq DOMAIN heap[last.envOut.functions]
              /\ ClassNames(last.prog) \subseteq DOMAIN heap[last.envOut.classes]

\* tc threw while checking a function body, after augmentTEnv had run on a
\* chunk with declarations
C2_Witness ==
    /\ last.called /\ ~last.ok
    /\ last.prog.inits # <<>> /\ last.prog.funs # <<>>
    /\ last.err.loc = 311

BuiltinNames == {"abs", "max", "min", "pow", "print"}

\* m2 binds every name m1 binds, to the same value unless the name is in redeclared
Keeps(m1, m2, redeclared) ==
    \A n \in DOMAIN m1 : n \in DOMAIN m2 /\ (n \notin redeclared => m2[n] = m1[n])

\* C3: along a chain of successful calls the environment after a call still
\* binds every global, function and class bound before it, unchanged unless
\* the chunk redeclares the name; abs, max, min, pow and print keep their
\* table signatures unless a chunk has declared a function of that name.
C3_EnvironmentAccumulates ==
    /\ \A n \in BuiltinNames :
          /\ n \in DOMAIN heap[env.functions]
          /\ n \notin declaredFuns => heap[env.functions][n] = defaultGlobalFunctions[n]
    /\ (last.called /\ last.ok) =>
          LET after == Contents(heap, last.envOut) IN
          /\ Keeps(last.before.globals, after.globals, InitNames(last.prog))
          /\ Keeps(last.before.functions, after.functions, FunNames(last.prog))
          /\ Keeps(last.before.classes, after.classes, ClassNames(last.prog))

\* A second chunk redeclared x, f and abs over the first chunk's declarations
\* and left b, c, g and the class C as they were
C3_Witness ==
    /\ last.called /\ last.ok /\ last.k = 2
    /\ {"x", "b", "c"} \subseteq DOMAIN last.before.globals
    /\ "abs" \in FunNames(last.prog)
    /\ heap[env.globals]["x"] = BOOL /\ last.before.globals["x"] = NUM
    /\ heap[env.functions]["g"] = last.before.functions["g"]

-----------------------------------------------------------------------------
(* The last call, looked at again: what its parts type to on their own *)

\* The environment the last call was handed, as a heap of its own
HeapBefore == <<last.before.globals, last.before.functions, last.before.classes>>

\* The environment the last call checked its statements under
EnvDuring ==
    Reading(augmentTEnv(HeapBefore, defaultTypeEnv, last.prog).heap,
            augmentTEnv(HeapBefore, defaultTypeEnv, last.prog).env, last.k)

\* The declarations of the last call's chunk pass their own checks
DeclsOk ==
    /\ tcInits(Reading(HeapBefore, defaultTypeEnv, last.k), last.prog.inits).ok
    /\ tcDefs(EnvDuring, last.prog.funs).ok
    /\ tcClasses(EnvDuring, last.prog.classes).ok

\* The last call's chunk has declarations that check and one statement
OneStmt == last.called /\ DeclsOk /\ Len(last.prog.stmts) = 1

\* That statement
TheStmt == last.prog.stmts[1]

\* What an expression of the top-level block types to on its own
TypedAlone(x) == tcExpr(EnvDuring, emptyLocalTypeEnv, x)

\* What a branch or loop body of the top-level block types to on its own
BlockAlone(ss) == tcBlock(EnvDuring, emptyLocalTypeEnv, ss)

-----------------------------------------------------------------------------
(* C4 *)

\* A plain assignment of a literal to a name that neither an initializer of
\* the chunk nor the incoming globals bind
IsFirstAssignment(s) ==
    /\ s.tag = "assign" /\ s.value.tag = "literal"
    /\ s.name \notin InitNames(last.prog)
    /\ s.name \notin DOMAIN last.before.globals

\* C4: when the first top-level statement of a chunk whose declarations check
\* is a plain assignment of a literal to a name bound neither by an
\* initializer of the chunk nor in the incoming globals, the assignment is
\* accepted (no diagnostic at it, and the call succeeds when it is the only
\* statement) and the returned globals bind the name to the literal's type.
C4_FirstAssignmentDeclares ==
    (last.called /\ DeclsOk /\ last.prog.stmts # <<>>
        /\ IsFirstAssignment(last.prog.stmts[1])) =>
        /\ last.ok \/ last.err.loc # last.prog.stmts[1].loc
        /\ Len(last.prog.stmts) = 1 => last.ok
        /\ last.ok =>
              /\ last.prog.stmts[1].name \in DOMAIN heap[last.envOut.globals]
              /\ SameType(heap[last.envOut.globals][last.prog.stmts[1].name],
                          tcLiteral(last.prog.stmts[1].value.value))

-----------------------------------------------------------------------------
(* C5 *)

RECURSIVE ExprAnnotated(_)
\* The node x and every expression node under it carry an annotation
ExprAnnotated(x) ==
    /\ "a" \in DOMAIN x
    /\ CASE x.tag \in {"binop", "builtin2"} -> ExprAnnotated(x.left) /\ ExprAnnotated(x.right)
         [] x.tag = "uniop" -> ExprAnnotated(x.expr)
         [] x.tag = "builtin1" -> ExprAnnotated(x.arg)
         [] x.tag = "call" -> \A i \in DOMAIN x.arguments : ExprAnnotated(x.arguments[i])
         [] x.tag = "lookup" -> ExprAnnotated(x.obj)
         [] x.tag = "method-call" ->
               /\ ExprAnnotated(x.obj)
               /\ \A i \in DOMAIN x.arguments : ExprAnnotated(x.arguments[i])
         [] OTHER -> TRUE

RECURSIVE StmtAnnotated(_)
\* The statement s and every node under it carry an annotation
StmtAnnotated(s) ==
    /\ "a" \in DOMAIN s
    /\ CASE s.tag \in {"assign", "return"} -> ExprAnnotated(s.value)
         [] s.tag = "expr" -> ExprAnnotated(s.expr)
         [] s.tag = "if" ->
               /\ ExprAnnotated(s.cond)
               /\ \A i \in DOMAIN s.thn : StmtAnnotated(s.thn[i])
               /\ \A i \in DOMAIN s.els : StmtAnnotated(s.els[i])
         [] s.tag = "while" ->
               /\ ExprAnnotated(s.cond)
               /\ \A i \in DOMAIN s.body : StmtAnnotated(s.body[i])
         [] s.tag = "field-assign" -> ExprAnnotated(s.obj) /\ ExprAnnotated(s.value)
         [] OTHER -> TRUE

FunAnnotated(f) == \A i \in DOMAIN f.body : StmtAnnotated(f.body[i])

\* The tag a node of the input has in the returned tree
TagAfter(x) ==
    IF x.tag = "call" /\ MapHas(EnvDuring.classes, x.name) THEN "construct" ELSE x.tag

\* C5: whenever tc succeeds, every statement and every expression node of the
\* returned program carries an annotation, the arguments of function calls
\* included at every depth, and the returned top-level block has the input's
\* statements, kind by kind, a call of a class name having become a construct.
C5_EveryNodeAnnotated ==
    (last.called /\ last.ok) =>
        /\ \A i \in DOMAIN last.tprog.stmts : StmtAnnotated(last.tprog.stmts[i])
        /\ \A i \in DOMAIN last.tprog.funs : FunAnnotated(last.tprog.funs[i])
        /\ \A i \in DOMAIN last.tprog.classes :
              \A j \in DOMAIN last.tprog.classes[i].methods :
                 FunAnnotated(last.tprog.classes[i].methods[j])
        /\ Len(last.tprog.stmts) = Len(last.prog.stmts)
        /\ \A i \in DOMAIN last.prog.stmts :
              /\ last.tprog.stmts[i].tag = last.prog.stmts[i].tag
              /\ last.prog.stmts[i].tag = "expr" =>
                    last.tprog.stmts[i].expr.tag = TagAfter(last.prog.stmts[i].expr)

-----------------------------------------------------------------------------
(* C6 *)

RECURSIVE ExprIds(_)
\* The names the identifier expressions in and under x read
ExprIds(x) ==
    CASE x.tag = "id" -> {x.name}
      [] x.tag \in {"binop", "builtin2"} -> ExprIds(x.left) \cup ExprIds(x.right)
      [] x.tag = "uniop" -> ExprIds(x.expr)
      [] x.tag = "builtin1" -> ExprIds(x.arg)
      [] x.tag = "call" -> UNION { ExprIds(x.arguments[i]) : i \in DOMAIN x.arguments }
      [] x.tag = "lookup" -> ExprIds(x.obj)
      [] x.tag = "method-call" ->
            ExprIds(x.obj) \cup UNION { ExprIds(x.arguments[i]) : i \in DOMAIN x.arguments }
      [] OTHER -> {}

RECURSIVE StmtIds(_)
\* The names the identifier expressions in and under the statement s read
StmtIds(s) ==
    CASE s.tag \in {"assign", "return"} -> ExprIds(s.value)
      [] s.tag = "expr" -> ExprIds(s.expr)
      [] s.tag = "if" ->
            ExprIds(s.cond) \cup UNION { StmtIds(s.thn[i]) : i \in DOMAIN s.thn }
               \cup UNION { StmtIds(s.els[i]) : i \in DOMAIN s.els }
      [] s.tag = "while" ->
            ExprIds(s.cond) \cup UNION { StmtIds(s.body[i]) : i \in DOMAIN s.body }
      [] s.tag = "field-assign" -> ExprIds(s.obj) \cup ExprIds(s.value)
      [] OTHER -> {}

BlockIds(ss) == UNION { StmtIds(ss[i]) : i \in DOMAIN ss }

\* The names the scope of a function body binds
ScopeOf(f) ==
    { f.parameters[i].name : i \in DOMAIN f.parameters }
       \cup { f.inits[i].name : i \in DOMAIN f.inits }

\* C6: in a program on which tc succeeds every identifier expression, also
\* one inside the arguments of a call of a class name, reads a name that the
\* scope in force (none at top level, the parameters and local initializers in
\* a function or method body) or the environment's globals bind.
C6_EveryIdentifierBound ==
    (last.called /\ last.ok) =>
        /\ BlockIds(last.prog.stmts) \subseteq DOMAIN heap[last.envOut.globals]
        /\ \A i \in DOMAIN last.prog.funs :
              BlockIds(last.prog.funs[i].body)
                 \subseteq ScopeOf(last.prog.funs[i]) \cup DOMAIN heap[last.envOut.globals]
        /\ \A i \in DOMAIN last.prog.classes :
              \A j \in DOMAIN last.prog.classes[i].methods :
                 BlockIds(last.prog.classes[i].methods[j].body)
                    \subseteq ScopeOf(last.prog.classes[i].methods[j])
                                 \cup DOMAIN heap[last.envOut.globals]

-----------------------------------------------------------------------------
(* C7 *)

\* The classes of BaseException behind the diagnostics of the interface:
\* TypeMismatch, NameResolutionFailure, AttributeResolutionFailure,
\* ConditionTypeFailure, SyntaxLevelFailure, UnsupportedOperandTypes,
\* ArityOrSignatureFailure, Generic
DiagnosticKinds ==
    { "TypeMismatchError", "NameError", "AttributeError", "ConditionTypeError",
      "SyntaxError", "UnsupportedOprandTypeError", "TypeError", "Exception" }

\* C7: every call of tc returns, or fails with one diagnostic of the listed
\* kinds that carries a source location, a conditional with an empty branch
\* included.
C7_OnlyListedDiagnostics ==
    last.called => (last.ok \/ (last.err.kind \in DiagnosticKinds /\ last.err.loc > 0))

-----------------------------------------------------------------------------
(* C8 *)

\* s is a conditional whose condition types to Bool and whose branches, each
\* with a last statement, type-check
WellTypedIf(s) ==
    /\ s.tag = "if"
    /\ TypedAlone(s.cond).ok /\ TypedAlone(s.cond).val.a.tag = "bool"
    /\ s.thn # <<>> /\ BlockAlone(s.thn).ok
    /\ s.els # <<>> /\ BlockAlone(s.els).ok

\* The type of the last statement of a block that type-checks
LastType(ss) == BlockAlone(ss).val[Len(ss)].a

\* C8: a conditional whose condition types to Bool and whose branches
\* type-check succeeds exactly when the last statements of the two branches
\* have equal types (same primitive tag, or classes of the same name); it is
\* then annotated with that type, and fails otherwise with a SyntaxError at
\* the conditional.
C8_IfBranchTypesEqual ==
    (OneStmt /\ WellTypedIf(TheStmt)) =>
        /\ last.ok <=> SameType(LastType(TheStmt.thn), LastType(TheStmt.els))
        /\ last.ok => SameType(last.tprog.stmts[1].a, LastType(TheStmt.thn))
        /\ ~last.ok => (last.err.kind = "SyntaxError" /\ last.err.loc = TheStmt.loc)

-----------------------------------------------------------------------------
(* C9 *)

\* C9: a while or if statement whose condition types to something other than
\* Bool fails with a ConditionTypeError that names the condition's type and is
\* located at the condition, whatever its body or branches hold.
C9_ConditionFailsFirst ==
    (OneStmt /\ TheStmt.tag \in {"while", "if"}
        /\ TypedAlone(TheStmt.cond).ok /\ TypedAlone(TheStmt.cond).val.a.tag # "bool") =>
        /\ ~last.ok
        /\ last.err.kind = "ConditionTypeError"
        /\ last.err.info = <<<<TypedAlone(TheStmt.cond).val.a.tag>>>>
        /\ last.err.loc = TheStmt.cond.loc

-----------------------------------------------------------------------------
(* C10 *)

\* s is an expression statement calling a known function that is no class,
\* with arguments that type-check
FunctionCall(s) ==
    /\ s.tag = "expr" /\ s.expr.tag = "call"
    /\ MapHas(EnvDuring.functions, s.expr.name) /\ ~MapHas(EnvDuring.classes, s.expr.name)
    /\ \A i \in DOMAIN s.expr.arguments : TypedAlone(s.expr.arguments[i]).ok

ParamTypes(s) == EnvDuring.functions[s.expr.name][1]

ArgTypes(s) == [i \in DOMAIN s.expr.arguments |-> TypedAlone(s.expr.arguments[i]).val.a]

ArgsMatch(s) ==
    /\ Len(ArgTypes(s)) = Len(ParamTypes(s))
    /\ \A i \in DOMAIN ArgTypes(s) : SameType(ArgTypes(s)[i], ParamTypes(s)[i])

\* C10: a call of a known function that is no class succeeds, with the
\* declared return type, exactly when there are as many arguments as declared
\* parameters and every argument's type equals (same primitive tag, or same
\* class name) the parameter's type at its position; a count mismatch is a
\* TypeError and a type mismatch a TypeMismatchError listing the expected and
\* the actual types.
C10_CallArgumentsEqualTypes ==
    (OneStmt /\ FunctionCall(TheStmt)) =>
        /\ last.ok <=> ArgsMatch(TheStmt)
        /\ last.ok => last.tprog.stmts[1].a = EnvDuring.functions[TheStmt.expr.name][2]
        /\ Len(ArgTypes(TheStmt)) # Len(ParamTypes(TheStmt)) =>
              (~last.ok /\ last.err.kind = "TypeError" /\ last.err.loc = TheStmt.expr.loc)
        /\ (Len(ArgTypes(TheStmt)) = Len(ParamTypes(TheStmt)) /\ ~ArgsMatch(TheStmt)) =>
              /\ ~last.ok /\ last.err.kind = "TypeMismatchError"
              /\ last.err.info = << <<"[">> \o toObject(ParamTypes(TheStmt)) \o <<"]">>,
                                    <<"[">> \o toObject(ArgTypes(TheStmt)) \o <<"]">> >>

-----------------------------------------------------------------------------
(* C11 *)

\* s is an expression statement calling a name that is a known class
ClassCall(s) ==
    /\ s.tag = "expr" /\ s.expr.tag = "call"
    /\ MapHas(EnvDuring.classes, s.expr.name)

\* The methods of the class that s calls
MethodsOf(s) == EnvDuring.classes[s.expr.name][2]

\* The parameters a constructor takes besides the receiver: those of __init__
\* less one, and none when the class declares no __init__
ExplicitParams(s) ==
    IF MapHas(MethodsOf(s), "__init__") THEN Len(MethodsOf(s)["__init__"][1]) - 1 ELSE 0

\* __init__, when the class declares it, returns none
InitReturnsNone(s) ==
    MapHas(MethodsOf(s), "__init__") => MethodsOf(s)["__init__"][2].tag = "none"

\* C11: a call of a known class is typed as a construct node of that class
\* exactly when it has as many arguments as the constructor has explicit
\* parameters (those of __init__ less the receiver, __init__ returning none;
\* zero when the class declares no __init__); every other call of a class
\* fails with a TypeError at the call.
C11_ConstructArity ==
    (OneStmt /\ ClassCall(TheStmt)) =>
        /\ last.ok <=> (Len(TheStmt.expr.arguments) = ExplicitParams(TheStmt)
                          /\ InitReturnsNone(TheStmt))
        /\ last.ok =>
              /\ last.tprog.stmts[1].expr.tag = "construct"
              /\ last.tprog.stmts[1].expr.a.tag = "class"
              /\ last.tprog.stmts[1].expr.a.name = TheStmt.expr.name
        /\ ~last.ok => (last.err.kind = "TypeError" /\ last.err.loc = TheStmt.expr.loc)

====
